---- MODULE Spec2Model ----
(***************************************************************************)
(* Model of scripts/rpm_owners/set_github_code_owners.py: the script that  *)
(* sets .github/CODEOWNERS in every repository of the xcp-ng-rpms          *)
(* organization that has an entry in packages.json.                        *)
(*                                                                         *)
(* Python strings are sequences of one-character strings.  An optional     *)
(* value (None or a string) is a sequence of length at most one.           *)
(***************************************************************************)
EXTENDS Integers, Sequences, FiniteSets, TLC

VARIABLES
    force,                \* args.force
    rpms,                 \* packages.json: package name -> record
    gh_repos,             \* names of the organization's repositories (dict keys)
    remote,               \* remote[r][b]: the CODEOWNERS file of r on branch b
    pkgs,                 \* the intersection the main loop iterates
    todo,                 \* elements of pkgs the loop has not yielded yet
    pkg,                  \* the loop variable (a sequence of length <= 1)
    ok,                   \* the module-level ok
    content,              \* set_gh_code_owners: content
    ok_local,             \* set_gh_code_owners: ok
    bi,                   \* index in BRANCHES of the branch being handled
    current_content,      \* set_gh_code_owners: current_content
    current_content_sha,  \* set_gh_code_owners: current_content_sha
    pc,                   \* position of the script
    exit_code,            \* process exit status: None while running, else Some(status)
    second,               \* FALSE in the first run, TRUE in the run after it
    calls,                \* history: calls[r][b], the remote calls issued for branch b of r, in order
    last,                 \* history: the remote call issued last (a sequence of length <= 1)
    outcomes,             \* history: per run, repository and branch, what was decided
    extCount,             \* history: number of modifications by somebody else
    tampered,             \* history: <<r, b>> somebody else modified
    snaps,                \* history: remote at the start and at the end of each run
    fnIn,                 \* pure functions: the maintainer name given
    fnTeam,               \* pure functions: to_gh_team(fnIn)
    fnContent,            \* pure functions: the content computed for fnIn
    fnPc                  \* pure functions: position

vars == <<force, rpms, gh_repos, remote, pkgs, todo, pkg, ok, content, ok_local,
          bi, current_content, current_content_sha, pc, exit_code, second, calls,
          last, outcomes, extCount, tampered, snaps, fnIn, fnTeam, fnContent, fnPc>>

mainVars == <<force, rpms, gh_repos, remote, pkgs, todo, pkg, ok, content, ok_local,
              bi, current_content, current_content_sha, pc, exit_code, second, calls,
              last, outcomes, extCount, tampered, snaps>>

fnVars == <<fnIn, fnTeam, fnContent, fnPc>>

----------------------------------------------------------------------------
(* Bounds *)

NumPkgs == 3        \* package / repository names are 1..NumPkgs
MaxExternal == 1    \* modifications of the remote by somebody else
MaxLen == 3         \* length of the maintainer names given to the pure functions

----------------------------------------------------------------------------
(* Strings *)

None == <<>>
Some(x) == <<x>>

UpperChars == <<"A","B","C","D","E","F","G","H","I","J","K","L","M",
                "N","O","P","Q","R","S","T","U","V","W","X","Y","Z">>
LowerChars == <<"a","b","c","d","e","f","g","h","i","j","k","l","m",
                "n","o","p","q","r","s","t","u","v","w","x","y","z">>
DigitChars == <<"0","1","2","3","4","5","6","7","8","9">>

Range(s) == {s[i] : i \in 1..Len(s)}

IsUpper(c) == c \in Range(UpperChars)

\* one character of str.lower()
LowerChar(c) ==
    IF IsUpper(c)
    THEN LowerChars[CHOOSE i \in 1..Len(UpperChars) : UpperChars[i] = c]
    ELSE c

\* str.lower()
lower(s) == [i \in 1..Len(s) |-> LowerChar(s[i])]

\* \w of the re module: a letter, a digit or the underscore
IsWord(c) == c \in Range(UpperChars) \cup Range(LowerChars) \cup Range(DigitChars) \cup {"_"}

\* s without its longest prefix of non-word characters
RECURSIVE SkipNonWord(_)
SkipNonWord(s) ==
    IF s = <<>> \/ IsWord(Head(s)) THEN s ELSE SkipNonWord(Tail(s))

\* re.sub(r'\W+', '-', s): leftmost greedy matches, each replaced by one hyphen
RECURSIVE ReSub(_)
ReSub(s) ==
    IF s = <<>> THEN <<>>
    ELSE IF IsWord(Head(s)) THEN <<Head(s)>> \o ReSub(Tail(s))
    ELSE <<"-">> \o ReSub(SkipNonWord(Tail(s)))

\* ' '.join(parts)
RECURSIVE Join(_)
Join(parts) ==
    IF parts = <<>> THEN <<>>
    ELSE IF Len(parts) = 1 THEN parts[1]
    ELSE parts[1] \o <<" ">> \o Join(Tail(parts))

----------------------------------------------------------------------------
(* Module constants *)

BRANCHES == <<"master">>

TeamPrefix == <<"@","x","c","p","-","n","g","-","r","p","m","s","/">>

PlatformTeam == <<"O","S"," ","P","l","a","t","f","o","r","m"," ","&"," ",
                  "R","e","l","e","a","s","e">>

----------------------------------------------------------------------------
(* to_gh_team and the expected content *)

\* a bug to_gh_team could have: r'\W' instead of r'\W+'
RECURSIVE SubEach(_)
SubEach(s) ==
    IF s = <<>> THEN <<>>
    ELSE <<IF IsWord(Head(s)) THEN Head(s) ELSE "-">> \o SubEach(Tail(s))

to_gh_team_EachChar(maintainer) == TeamPrefix \o SubEach(lower(maintainer))

to_gh_team(maintainer) == TeamPrefix \o ReSub(lower(maintainer))

\* a bug: the platform team appended without the membership test
Owners_NoDedup(rpm) == <<rpm.maintainer, PlatformTeam>>

\* owners, lines 43-46
Owners(rpm) ==
    IF PlatformTeam \notin Range(<<rpm.maintainer>>)
    THEN <<rpm.maintainer, PlatformTeam>>
    ELSE <<rpm.maintainer>>

\* content, line 47
ExpectedContent(rpm) ==
    LET owners == Owners(rpm)
    IN  <<"*", " ">> \o Join([i \in 1..Len(owners) |-> to_gh_team(owners[i])]) \o <<"\n">>

----------------------------------------------------------------------------
(* The remote: the organization's repositories and their CODEOWNERS files *)

Names == 1..NumPkgs

BranchSet == Range(BRANCHES)

\* maintainers the registry records are drawn from
MaintainerSeq == <<PlatformTeam, <<"A", " ", "b">>>>

Maintainers == Range(MaintainerSeq)

RpmRecords == {[maintainer |-> m] : m \in Maintainers}

\* the contents a CODEOWNERS file is found with: what the script writes for one
\* maintainer or another (the registry may have changed since)
FileContents == {ExpectedContent(rec) : rec \in RpmRecords}

\* a file of the remote: None (no such file) or Some(content)
FileStates == {None} \cup {Some(c) : c \in FileContents}

FileStateSeq ==
    <<None>> \o [i \in 1..Len(MaintainerSeq) |->
                    Some(ExpectedContent([maintainer |-> MaintainerSeq[i]]))]

\* gh_content.sha: the blob id of the file, a function of its content
BlobSha(c) == <<"blob">> \o c

NoSha == <<>>    \* current_content_sha = ''

----------------------------------------------------------------------------
(* Decisions of the script *)

\* a bug: every exception of the read suppressed, not only UnknownObjectException
Suppressed_All(exc) == TRUE

\* with suppress(gh.UnknownObjectException), line 52
Suppressed(exc) == exc = "UnknownObjectException"

\* bugs of the if / elif chain
Decide_IgnoreForce(cur, expected, frc) ==
    IF cur = None THEN "create"
    ELSE IF cur # Some(expected) THEN "update"
    ELSE "ok"

Decide_AbsentIsConflict(cur, expected, frc) ==
    IF frc /\ cur # Some(expected) THEN (IF cur = None THEN "create" ELSE "update")
    ELSE IF cur = Some(expected) THEN "ok"
    ELSE "conflict"

Decide_ForceAlwaysWrites(cur, expected, frc) ==
    IF cur = None THEN "create"
    ELSE IF frc THEN "update"
    ELSE IF cur = Some(expected) THEN "ok"
    ELSE "conflict"

Decide_MismatchIsOk(cur, expected, frc) ==
    IF cur = None THEN "create"
    ELSE IF frc /\ cur # Some(expected) THEN "update"
    ELSE "ok"

\* the if / elif chain of lines 56-69
Decide(cur, expected, frc) ==
    IF cur = None THEN "create"
    ELSE IF frc /\ cur # Some(expected) THEN "update"
    ELSE IF cur = Some(expected) THEN "ok"
    ELSE "conflict"

\* a bug: the content written is the content read
Written_Current(cur, expected) == IF cur = None THEN expected ELSE cur[1]

\* the content argument of create_file and update_file, lines 58 and 62
Written(cur, expected) == expected

\* a bug: ok = set_gh_code_owners(...) instead of ok &= ...
AndOk_Last(a, b) == b

\* ok &= set_gh_code_owners(repo, rpm, args.force), line 103
AndOk(a, b) == a /\ b

\* a bug: the keys of gh_repos, without the intersection
Intersection_ReposOnly(repos, registry) == repos

\* set(gh_repos.keys()).intersection(set(rpms.keys())), line 97
Intersection(repos, registry) == repos \cap registry

\* if not ok: exit(1), lines 104-105; the end of the script exits 0
ExitCode(okv) == IF ~okv THEN 1 ELSE 0

----------------------------------------------------------------------------
(* Initial states *)

InitFnIdle ==
    /\ fnIn = <<>>
    /\ fnTeam = None
    /\ fnContent = None
    /\ fnPc = "idle"

\* Names only identify: the script treats them alike and its loop takes them in
\* any order, so every initial state is one of these with the names permuted.
\* Of the states that differ by a permutation of the names, Init keeps those
\* where the names come in the order of ConfigRank.
IndexIn(seq, x) == CHOOSE i \in 1..Len(seq) : seq[i] = x

ConfigRank(registry, repos, files, r) ==
    (IF r \in DOMAIN registry
     THEN IndexIn(MaintainerSeq, registry[r].maintainer)
     ELSE 0) * (Len(FileStateSeq) + 1)
    + (IF r \in repos THEN IndexIn(FileStateSeq, files[r][BRANCHES[1]]) ELSE 0)

Init ==
    /\ force \in BOOLEAN
    /\ rpms \in UNION {[S -> RpmRecords] : S \in SUBSET Names}
    /\ gh_repos \in SUBSET Names
    /\ remote \in [gh_repos -> [BranchSet -> FileStates]]
    /\ \A r \in Names \ {NumPkgs} :
           ConfigRank(rpms, gh_repos, remote, r) <= ConfigRank(rpms, gh_repos, remote, r + 1)
    /\ pkgs = {}
    /\ todo = {}
    /\ pkg = None
    /\ ok = TRUE
    /\ content = <<>>
    /\ ok_local = TRUE
    /\ bi = 1
    /\ current_content = None
    /\ current_content_sha = NoSha
    /\ pc = "start"
    /\ exit_code = None
    /\ second = FALSE
    /\ calls = [r \in Names |-> [b \in BranchSet |-> <<>>]]
    /\ last = None
    /\ outcomes = {}
    /\ extCount = 0
    /\ tampered = {}
    /\ snaps = <<remote>>
    /\ InitFnIdle

----------------------------------------------------------------------------
(* Actions *)

Call(op, r, b, c, sha, res) ==
    [run |-> second, op |-> op, repo |-> r, branch |-> b,
     content |-> c, sha |-> sha, res |-> res]

\* the call c is issued
Issue(c) ==
    /\ calls' = [calls EXCEPT ![c.repo][c.branch] = Append(@, c)]
    /\ last' = Some(c)

Outcome(r, b, o) == [run |-> second, repo |-> r, branch |-> b, outcome |-> o]

\* an exception nothing catches: the interpreter prints it and exits with status 1
Abort ==
    /\ pc' = "aborted"
    /\ exit_code' = Some(1)

\* the end of one iteration of the for over BRANCHES; after the last one,
\* return ok (line 70) and ok &= ... (line 103)
NextBranch(okl) ==
    /\ ok_local' = okl
    /\ IF bi < Len(BRANCHES)
       THEN /\ bi' = bi + 1
            /\ pc' = "read"
            /\ ok' = ok
       ELSE /\ bi' = bi
            /\ pc' = "loop"
            /\ ok' = AndOk(ok, okl)

\* lines 97-99: the names in both mappings, ok = True
ComputePkgs ==
    /\ pc = "start"
    /\ pkgs' = Intersection(gh_repos, DOMAIN rpms)
    /\ todo' = pkgs'
    /\ ok' = TRUE
    /\ pc' = "loop"
    /\ UNCHANGED <<force, rpms, gh_repos, remote, pkg, content, ok_local, bi,
                   current_content, current_content_sha, exit_code, second, calls, last,
                   outcomes, extCount, tampered, snaps, fnVars>>

\* lines 100-102 and 43-48: the loop yields a package (in no particular order),
\* looks it up in both mappings and enters set_gh_code_owners
LoopNext ==
    /\ pc = "loop"
    /\ \E p \in todo :
        /\ pkg' = Some(p)
        /\ todo' = todo \ {p}
        /\ bi' = 1
        /\ current_content' = None
        /\ current_content_sha' = NoSha
        /\ IF p \in gh_repos /\ p \in DOMAIN rpms
           THEN /\ content' = ExpectedContent(rpms[p])
                /\ ok_local' = TRUE
                /\ pc' = "read"
                /\ UNCHANGED exit_code
           ELSE \* KeyError at line 101 or 102
                /\ Abort
                /\ UNCHANGED <<content, ok_local>>
    /\ UNCHANGED <<force, rpms, gh_repos, remote, pkgs, ok, second, calls, last, outcomes,
                   extCount, tampered, snaps, fnVars>>

\* lines 50-56, 60 and 64-69: the read of the file and the decision taken on it
ReadBranch ==
    /\ pc = "read"
    /\ \E fails \in BOOLEAN :
        LET r == pkg[1]
            b == BRANCHES[bi]
            file == remote[r][b]
            exc == IF fails THEN "GithubException"
                   ELSE IF file = None THEN "UnknownObjectException"
                   ELSE "none"
            cur == IF exc = "none" THEN file ELSE None
            sha == IF exc = "none" THEN BlobSha(file[1]) ELSE NoSha
            d == Decide(cur, content, force)
        IN  /\ Issue(Call("get_contents", r, b, cur, sha, exc))
            /\ IF exc # "none" /\ ~Suppressed(exc)
               THEN /\ Abort
                    /\ UNCHANGED <<current_content, current_content_sha, ok, ok_local,
                                   bi, outcomes>>
               ELSE /\ current_content' = cur
                    /\ current_content_sha' = sha
                    /\ UNCHANGED exit_code
                    /\ IF d \in {"create", "update"}
                       THEN /\ pc' = d
                            /\ UNCHANGED <<ok, ok_local, bi, outcomes>>
                       ELSE /\ outcomes' = outcomes \cup {Outcome(r, b, d)}
                            /\ NextBranch(IF d = "conflict" THEN FALSE ELSE ok_local)
    /\ UNCHANGED <<force, rpms, gh_repos, remote, pkgs, todo, pkg, content, second,
                   extCount, tampered, snaps, fnVars>>

\* line 58: repo.create_file(CODEOWNERS, MESSAGE, content, branch); the remote
\* refuses to create a file that exists
CreateFile ==
    /\ pc = "create"
    /\ \E fails \in BOOLEAN :
        LET r == pkg[1]
            b == BRANCHES[bi]
            w == Written(current_content, content)
            refused == fails \/ remote[r][b] # None
        IN  /\ Issue(Call("create_file", r, b, Some(w), NoSha,
                       IF refused THEN "GithubException" ELSE "none"))
            /\ IF refused
               THEN /\ Abort
                    /\ UNCHANGED <<remote, ok, ok_local, bi, outcomes>>
               ELSE /\ remote' = [remote EXCEPT ![r][b] = Some(w)]
                    /\ outcomes' = outcomes \cup {Outcome(r, b, "created")}
                    /\ UNCHANGED exit_code
                    /\ NextBranch(ok_local)
    /\ UNCHANGED <<force, rpms, gh_repos, pkgs, todo, pkg, content, current_content,
                   current_content_sha, second, extCount, tampered, snaps, fnVars>>

\* line 62: repo.update_file(CODEOWNERS, MESSAGE, content, current_content_sha,
\* branch); the remote refuses a sha that is not the sha of the file it holds
UpdateFile ==
    /\ pc = "update"
    /\ \E fails \in BOOLEAN :
        LET r == pkg[1]
            b == BRANCHES[bi]
            w == Written(current_content, content)
            stale == \/ remote[r][b] = None
                     \/ BlobSha(remote[r][b][1]) # current_content_sha
            refused == fails \/ stale
        IN  /\ Issue(Call("update_file", r, b, Some(w), current_content_sha,
                       IF refused THEN "GithubException" ELSE "none"))
            /\ IF refused
               THEN /\ Abort
                    /\ UNCHANGED <<remote, ok, ok_local, bi, outcomes>>
               ELSE /\ remote' = [remote EXCEPT ![r][b] = Some(w)]
                    /\ outcomes' = outcomes \cup {Outcome(r, b, "updated")}
                    /\ UNCHANGED exit_code
                    /\ NextBranch(ok_local)
    /\ UNCHANGED <<force, rpms, gh_repos, pkgs, todo, pkg, content, current_content,
                   current_content_sha, second, extCount, tampered, snaps, fnVars>>

\* lines 104-105: the loop is over
Exit ==
    /\ pc = "loop"
    /\ todo = {}
    /\ pc' = "done"
    /\ exit_code' = Some(ExitCode(ok))
    /\ snaps' = Append(snaps, remote)
    /\ UNCHANGED <<force, rpms, gh_repos, remote, pkgs, todo, pkg, ok, content,
                   ok_local, bi, current_content, current_content_sha, second, calls, last,
                   outcomes, extCount, tampered, fnVars>>

\* the script is run a second time, with the same arguments and registry
Rerun ==
    /\ pc = "done"
    /\ ~second
    /\ second' = TRUE
    /\ pc' = "start"
    /\ exit_code' = None
    /\ pkgs' = {}
    /\ todo' = {}
    /\ pkg' = None
    /\ ok' = TRUE
    /\ ok_local' = TRUE
    /\ content' = <<>>
    /\ bi' = 1
    /\ current_content' = None
    /\ current_content_sha' = NoSha
    /\ UNCHANGED <<force, rpms, gh_repos, remote, calls, last, outcomes, extCount,
                   tampered, snaps, fnVars>>

\* somebody else creates, changes or deletes a CODEOWNERS file while the script
\* runs: the file the script has read and is about to write, or a file of a
\* repository the loop is done with (a change to a file the script has not read
\* yet is one of the initial states)
ExternalModify ==
    /\ extCount < MaxExternal
    /\ \E r \in gh_repos, b \in BranchSet, f \in FileStates :
        /\ \/ pc \in {"create", "update"} /\ r = pkg[1] /\ b = BRANCHES[bi]
           \/ pc = "loop" /\ r \in pkgs \ todo
        /\ f # remote[r][b]
        /\ remote' = [remote EXCEPT ![r][b] = f]
        /\ tampered' = tampered \cup {<<r, b>>}
    /\ extCount' = extCount + 1
    /\ UNCHANGED <<force, rpms, gh_repos, pkgs, todo, pkg, ok, content, ok_local, bi,
                   current_content, current_content_sha, pc, exit_code, second, calls, last,
                   outcomes, snaps, fnVars>>

\* one run of the script, with somebody else at work on the remote
Next ==
    \/ ComputePkgs
    \/ LoopNext
    \/ ReadBranch
    \/ CreateFile
    \/ UpdateFile
    \/ Exit
    \/ ExternalModify

Spec == Init /\ [][Next]_vars

\* two runs of the script in succession, nobody else at work on the remote
NextTwice ==
    \/ ComputePkgs
    \/ LoopNext
    \/ ReadBranch
    \/ CreateFile
    \/ UpdateFile
    \/ Exit
    \/ Rerun

SpecTwice == Init /\ [][NextTwice]_vars

----------------------------------------------------------------------------
(* to_gh_team and the expected content, applied to bounded maintainer names *)

\* characters of the names: upper case, lower case, underscore, digit, and
\* non-word characters (the hyphen and the line feed among them)
InputChars == {"A", "b", "_", "1", " ", "&", "-", "\n"}

FnInputs ==
    UNION {[1..n -> InputChars] : n \in 0..MaxLen} \cup {PlatformTeam, lower(PlatformTeam)}

InitFn ==
    /\ force = FALSE
    /\ rpms = <<>>
    /\ gh_repos = {}
    /\ remote = <<>>
    /\ pkgs = {}
    /\ todo = {}
    /\ pkg = None
    /\ ok = TRUE
    /\ content = <<>>
    /\ ok_local = TRUE
    /\ bi = 1
    /\ current_content = None
    /\ current_content_sha = NoSha
    /\ pc = "idle"
    /\ exit_code = None
    /\ second = FALSE
    /\ calls = <<>>
    /\ last = None
    /\ outcomes = {}
    /\ extCount = 0
    /\ tampered = {}
    /\ snaps = <<>>
    /\ fnIn \in FnInputs
    /\ fnTeam = None
    /\ fnContent = None
    /\ fnPc = "start"

\* to_gh_team(maintainer), lines 26-27
ApplyToGhTeam ==
    /\ fnPc = "start"
    /\ fnTeam' = Some(to_gh_team(fnIn))
    /\ fnPc' = "team"
    /\ UNCHANGED <<mainVars, fnIn, fnContent>>

\* lines 43-47 on the record {"maintainer": fnIn}
ApplyContent ==
    /\ fnPc = "team"
    /\ fnContent' = Some(ExpectedContent([maintainer |-> fnIn]))
    /\ fnPc' = "content"
    /\ UNCHANGED <<mainVars, fnIn, fnTeam>>

NextFn ==
    \/ ApplyToGhTeam
    \/ ApplyContent

SpecFn == InitFn /\ [][NextFn]_vars

----------------------------------------------------------------------------
(* Properties of the pure functions *)

\* the number of word characters of s before position i
WordsBefore(s, i) == Cardinality({j \in 1..(i - 1) : IsWord(s[j])})

\* the positions where a maximal run of non-word characters of s starts
RunStarts(s) == {i \in 1..Len(s) : ~IsWord(s[i]) /\ (i = 1 \/ IsWord(s[i - 1]))}

HyphensOf(s) == {i \in 1..Len(s) : s[i] = "-"}

\* s.split(sep)
RECURSIVE Split(_, _)
Split(s, sep) ==
    IF \A i \in 1..Len(s) : s[i] # sep THEN <<s>>
    ELSE LET i == CHOOSE k \in 1..Len(s) :
                      s[k] = sep /\ \A j \in 1..(k - 1) : s[j] # sep
         IN  <<SubSeq(s, 1, i - 1)>> \o Split(SubSeq(s, i + 1, Len(s)), sep)

PlatformHandle == <<"@","x","c","p","-","n","g","-","r","p","m","s","/",
                    "o","s","-","p","l","a","t","f","o","r","m","-",
                    "r","e","l","e","a","s","e">>

\* C9: for a non-empty maintainer name, to_gh_team returns '@xcp-ng-rpms/' followed
\* by a body that holds no upper-case letter and no non-word character but the
\* hyphen, never two hyphens in a row; the word characters of the body are those
\* of the name, lower-cased, in the same order; and there is exactly one hyphen
\* per maximal run of non-word characters of the name, at the place of the run.
Thm_TeamHandle ==
    (fnTeam # None /\ fnIn # <<>>) =>
        LET t == fnTeam[1]
            n == Len(TeamPrefix)
            body == SubSeq(t, n + 1, Len(t))
            inWords == SelectSeq(fnIn, IsWord)
        IN  /\ Len(t) > n
            /\ SubSeq(t, 1, n) = TeamPrefix
            /\ \A i \in 1..Len(body) : ~IsUpper(body[i]) /\ (IsWord(body[i]) \/ body[i] = "-")
            /\ \A i \in 1..(Len(body) - 1) : ~(body[i] = "-" /\ body[i + 1] = "-")
            /\ SelectSeq(body, IsWord) = [i \in 1..Len(inWords) |-> LowerChar(inWords[i])]
            /\ Cardinality(HyphensOf(body)) = Cardinality(RunStarts(fnIn))
            /\ {WordsBefore(body, i) : i \in HyphensOf(body)}
                   = {WordsBefore(fnIn, i) : i \in RunStarts(fnIn)}

\* to_gh_team has been applied to a name with an upper-case letter and a run of
\* two non-word characters
Wit_TeamHandle ==
    /\ fnTeam # None
    /\ \E j \in 1..Len(fnIn) : IsUpper(fnIn[j])
    /\ \E i \in 1..(Len(fnIn) - 1) : ~IsWord(fnIn[i]) /\ ~IsWord(fnIn[i + 1])

\* C8: the expected content is '* ', then team handles separated by single
\* spaces, then one line feed, the only one of the content; the first handle is
\* the maintainer's, the platform team's handle is among them, and for the
\* maintainer 'OS Platform & Release' that handle is there once.
Thm_ExpectedContent ==
    fnContent # None =>
        LET c == fnContent[1]
            line == SubSeq(c, 1, Len(c) - 1)
            tokens == Split(line, " ")
            handles == Tail(tokens)
        IN  /\ Len(c) >= 3
            /\ c[Len(c)] = "\n"
            /\ \A i \in 1..Len(line) : line[i] # "\n"
            /\ tokens[1] = <<"*">>
            /\ Len(handles) \in {1, 2}
            /\ \A i \in 1..Len(handles) :
                   /\ Len(handles[i]) >= Len(TeamPrefix)
                   /\ SubSeq(handles[i], 1, Len(TeamPrefix)) = TeamPrefix
            /\ handles[1] = fnTeam[1]
            /\ \E i \in 1..Len(handles) : handles[i] = PlatformHandle
            /\ fnIn = PlatformTeam =>
                   Cardinality({i \in 1..Len(handles) : handles[i] = PlatformHandle}) = 1

\* the content has been computed for the maintainer 'OS Platform & Release'
Wit_ExpectedContent ==
    /\ fnContent # None
    /\ fnIn = PlatformTeam

----------------------------------------------------------------------------------------------------------------------------------------
(* Properties of the runs *)

\* the repositories the script is to reconcile
Covered == gh_repos \cap DOMAIN rpms

\* the expected content of each record, computed once
ContentOf == [rec \in RpmRecords |-> ExpectedContent(rec)]

\* a call of the history is named <<r, b, i>>: the i-th call for branch b of r
CallIds ==
    UNION {{<<rb[1], rb[2], i>> : i \in 1..Len(calls[rb[1]][rb[2]])} :
              rb \in Names \X BranchSet}

CallAt(id) == calls[id[1]][id[2]][id[3]]

WriteOps == {"create_file", "update_file"}

\* the positions, in the calls for branch b of r, of the calls of run run whose
\* kind is in ops
CallsOf(run, ops, r, b) ==
    {i \in 1..Len(calls[r][b]) : calls[r][b][i].run = run /\ calls[r][b][i].op \in ops}

\* the script has decided to write branch b of r and has not issued the call yet
Pending(run, r, b) ==
    /\ second = run
    /\ pc \in {"create", "update"}
    /\ pkg = Some(r)
    /\ BRANCHES[bi] = b

OutcomesOf(run, r, b) ==
    {o.outcome : o \in {x \in outcomes : x.run = run /\ x.repo = r /\ x.branch = b}}

\* the reads that found the file, with a content that is not the expected one
ReadsOfMismatch ==
    {id \in CallIds :
        /\ CallAt(id).op = "get_contents"
        /\ CallAt(id).res = "none"
        /\ CallAt(id).content # Some(ContentOf[rpms[id[1]]])}

\* C1: after a read that finds the file with a content other than the expected
\* one: without force no create or update call is issued for the branch, the
\* branch is conflict-reported and fails the run, and the file is as it was read
\* unless somebody else changed it; with force the branch is never
\* conflict-reported and does not fail the run, and the one write call issued for
\* it is the call that follows the read, an update carrying the expected content
\* and the sha that read returned.
Thm_ForceGating ==
    \A id \in ReadsOfMismatch :
        LET c == CallAt(id)
            log == calls[id[1]][id[2]]
            i == id[3]
            writes == CallsOf(c.run, WriteOps, c.repo, c.branch)
        IN  IF ~force
            THEN /\ writes = {}
                 /\ OutcomesOf(c.run, c.repo, c.branch) = {"conflict"}
                 /\ ~ok \/ (pkg = Some(c.repo) /\ ~ok_local)
                 /\ <<c.repo, c.branch>> \notin tampered => remote[c.repo][c.branch] = c.content
            ELSE /\ "conflict" \notin OutcomesOf(c.run, c.repo, c.branch)
                 /\ ok /\ ok_local
                 /\ IF Pending(c.run, c.repo, c.branch)
                    THEN pc = "update" /\ writes = {}
                    ELSE /\ writes = {i + 1}
                         /\ log[i + 1].op = "update_file"
                         /\ log[i + 1].content = Some(ContentOf[rpms[c.repo]])
                         /\ log[i + 1].sha = c.sha
                         /\ c.sha = BlobSha(c.content[1])

\* a mismatch was found with force and the update was issued and accepted
Wit_ForceGating ==
    /\ force
    /\ \E id \in ReadsOfMismatch :
        /\ id[3] < Len(calls[id[1]][id[2]])
        /\ calls[id[1]][id[2]][id[3] + 1].op = "update_file"
        /\ calls[id[1]][id[2]][id[3] + 1].res = "none"

\* the reads the remote answered with 'not found'
ReadsOfAbsent ==
    {id \in CallIds :
        /\ CallAt(id).op = "get_contents"
        /\ CallAt(id).res = "UnknownObjectException"}

\* C2: after a read answered 'not found', with or without force: no update call is
\* ever issued for the branch, the branch is never conflict-reported and does not
\* lower ok, and the one write call issued for it is the call that follows the
\* read, a create carrying the expected content and no sha; once the remote has
\* accepted it the branch is recorded as created.
Thm_AbsentCreates ==
    \A id \in ReadsOfAbsent :
        LET c == CallAt(id)
            log == calls[id[1]][id[2]]
            i == id[3]
            writes == CallsOf(c.run, WriteOps, c.repo, c.branch)
        IN  /\ c.content = None /\ c.sha = NoSha
            /\ "conflict" \notin OutcomesOf(c.run, c.repo, c.branch)
            /\ pkg = Some(c.repo) => ok_local
            /\ IF Pending(c.run, c.repo, c.branch)
               THEN pc = "create" /\ writes = {}
               ELSE /\ writes = {i + 1}
                    /\ log[i + 1].op = "create_file"
                    /\ log[i + 1].content = Some(ContentOf[rpms[c.repo]])
                    /\ log[i + 1].sha = NoSha
                    /\ log[i + 1].res = "none" =>
                           OutcomesOf(c.run, c.repo, c.branch) = {"created"}

\* a file was found absent without force, and was created
Wit_AbsentCreates ==
    /\ ~force
    /\ \E id \in ReadsOfAbsent :
        /\ id[3] < Len(calls[id[1]][id[2]])
        /\ calls[id[1]][id[2]][id[3] + 1].op = "create_file"
        /\ calls[id[1]][id[2]][id[3] + 1].res = "none"

\* the reads that found the file with the expected content
ReadsOfMatch ==
    {id \in CallIds :
        /\ CallAt(id).op = "get_contents"
        /\ CallAt(id).res = "none"
        /\ CallAt(id).content = Some(ContentOf[rpms[id[1]]])}

\* C3: after a read that finds the file with the expected content, with or without
\* force: no create or update call is ever issued for the branch, its outcome is
\* already-matching, it does not lower ok, and the file (hence its sha) is as it
\* was read unless somebody else changed it.
Thm_NoWriteOnMatch ==
    \A id \in ReadsOfMatch :
        LET c == CallAt(id)
        IN  /\ CallsOf(c.run, WriteOps, c.repo, c.branch) = {}
            /\ ~Pending(c.run, c.repo, c.branch)
            /\ OutcomesOf(c.run, c.repo, c.branch) = {"ok"}
            /\ pkg = Some(c.repo) => ok_local
            /\ <<c.repo, c.branch>> \notin tampered =>
                   /\ remote[c.repo][c.branch] = c.content
                   /\ BlobSha(remote[c.repo][c.branch][1]) = c.sha

\* a matching file was read with force, and the run reached its end
Wit_NoWriteOnMatch ==
    /\ force
    /\ pc = "done"
    /\ ReadsOfMatch # {}

\* the run has reported a conflict
Conflicted == \E o \in outcomes : o.run = second /\ o.outcome = "conflict"

\* C4: a run that reaches its end exits 1 if some branch of some repository was
\* conflict-reported in it and 0 if none was; with force it exits 0.
Thm_ExitCode ==
    pc = "done" =>
        /\ exit_code = Some(IF Conflicted THEN 1 ELSE 0)
        /\ force => exit_code = Some(0)

\* a run over three repositories ended with exit code 1: one was
\* conflict-reported, and the one reconciled last was not
Wit_ExitCode ==
    /\ pc = "done"
    /\ exit_code = Some(1)
    /\ Cardinality(pkgs) = 3
    /\ Cardinality({o \in outcomes : o.outcome = "conflict"}) = 1
    /\ last # None
    /\ "conflict" \notin OutcomesOf(second, last[1].repo, last[1].branch)

\* the calls the remote, or the network, failed
FailedCalls == {id \in CallIds : CallAt(id).res = "GithubException"}

\* C6: no call is ever issued for a repository that is not in both the registry
\* and the organization's listing, and no branch is read twice in a run; a run
\* that is over with no call failed has read every branch of every repository in
\* both exactly once and recorded exactly one outcome for it, conflicts of other
\* repositories notwithstanding.
Thm_Coverage ==
    /\ \A r \in Names \ Covered, b \in BranchSet : calls[r][b] = <<>>
    /\ \A r \in Names, b \in BranchSet :
           Cardinality(CallsOf(second, {"get_contents"}, r, b)) <= 1
    /\ (pc \in {"done", "aborted"} /\ FailedCalls = {}) =>
           /\ pc = "done"
           /\ \A r \in Covered, b \in BranchSet :
                  /\ Cardinality(CallsOf(second, {"get_contents"}, r, b)) = 1
                  /\ Cardinality(OutcomesOf(second, r, b)) = 1

\* a run is over in which a repository was reconciled after another one was
\* conflict-reported, the organization having a repository with no record
Wit_Coverage ==
    /\ pc = "done"
    /\ gh_repos \ DOMAIN rpms # {}
    /\ Conflicted
    /\ last # None
    /\ "conflict" \notin OutcomesOf(second, last[1].repo, last[1].branch)

\* the calls that wrote a file
AcceptedWrites == {id \in CallIds : CallAt(id).op \in WriteOps /\ CallAt(id).res = "none"}

\* C7: a call that fails (a read with anything but 'not found', a create, an
\* update, also one refused for a stale sha) is the last call the script issues:
\* the script is stopped by the exception in the repository of that call, not
\* at its normal end, no call has been issued for the repositories the loop had
\* left, and what the calls before wrote is on the remote unless somebody else
\* changed it.
Thm_FailuresAbort ==
    /\ Cardinality(FailedCalls) <= 1
    /\ \A id \in FailedCalls :
        /\ last = Some(CallAt(id))
        /\ id[3] = Len(calls[id[1]][id[2]])
        /\ pc = "aborted"
        /\ exit_code = Some(1)
        /\ pkg = Some(id[1])
        /\ \A r \in todo, b \in BranchSet : calls[r][b] = <<>>
        /\ \A w \in AcceptedWrites :
               <<w[1], w[2]>> \notin tampered => remote[w[1]][w[2]] = CallAt(w).content
    /\ pc = "aborted" => FailedCalls # {}

\* the remote refused an update whose sha was stale, after the script had written
\* to another repository and with a repository left
Wit_FailuresAbort ==
    /\ todo # {}
    /\ AcceptedWrites # {}
    /\ \E id \in FailedCalls :
        /\ CallAt(id).op = "update_file"
        /\ remote[id[1]][id[2]] # None
        /\ CallAt(id).sha # BlobSha(remote[id[1]][id[2]][1])

\* C10: when a run has reached its end and nobody else has modified the remote:
\* if it exits 0, every branch of every repository in both the registry and the
\* listing holds the expected content; if it exits 1 without force, the branches
\* conflict-reported are exactly those that hold what they held at the start, a
\* content other than the expected one.
Thm_Convergence ==
    (pc = "done" /\ extCount = 0) =>
        /\ exit_code = Some(0) =>
               \A r \in Covered, b \in BranchSet :
                   remote[r][b] = Some(ContentOf[rpms[r]])
        /\ (exit_code = Some(1) /\ ~force) =>
               {<<o.repo, o.branch>> :
                    o \in {x \in outcomes : x.run = second /\ x.outcome = "conflict"}}
                 = {rb \in Covered \X BranchSet :
                        /\ snaps[1][rb[1]][rb[2]] # None
                        /\ snaps[1][rb[1]][rb[2]] # Some(ContentOf[rpms[rb[1]]])
                        /\ remote[rb[1]][rb[2]] = snaps[1][rb[1]][rb[2]]}

\* a run ended with exit code 0 after it created one file and updated another
Wit_Convergence ==
    /\ pc = "done"
    /\ extCount = 0
    /\ exit_code = Some(0)
    /\ \E o \in outcomes : o.outcome = "created"
    /\ \E o \in outcomes : o.outcome = "updated"

\* C5: with force and nobody else at work on the remote, a branch the first run
\* created or updated gets no create and no update call in the second run, which
\* finds it already-matching; when the second run is over, the remote is what it
\* was when the first run was over.
Thm_Idempotent ==
    force =>
        /\ \A o \in {x \in outcomes : ~x.run /\ x.outcome \in {"created", "updated"}} :
               /\ CallsOf(TRUE, WriteOps, o.repo, o.branch) = {}
               /\ ~Pending(TRUE, o.repo, o.branch)
               /\ OutcomesOf(TRUE, o.repo, o.branch) \subseteq {"ok"}
               /\ (second /\ pc = "done") => OutcomesOf(TRUE, o.repo, o.branch) = {"ok"}
        /\ (second /\ pc = "done") => snaps[3] = snaps[2]

\* the second run is over, after a first run that created one file and updated
\* another
Wit_Idempotent ==
    /\ force
    /\ second
    /\ pc = "done"
    /\ \E o \in outcomes : ~o.run /\ o.outcome = "created"
    /\ \E o \in outcomes : ~o.run /\ o.outcome = "updated"

====
